---- MODULE Spec2Model ----
(***************************************************************************)
(* The Trail Relocator of "Google Script/Trails list management.js":       *)
(* onEdit -> processRow -> findAndRemoveRecordInAllSheets ->               *)
(* updateOrInsertRow, over one master sheet ('General Info') and the five  *)
(* category sheets ('Tracks' tab of five documents).                       *)
(*                                                                         *)
(* A sheet is the sequence of its rows, row 1 being the header, so that a  *)
(* row index of the model is the row number the script passes to getRange  *)
(* and deleteRow.  A row is [c |-> its eleven cells, f |-> the number      *)
(* formats of its lat and lon cells].  Text cells whose characters matter  *)
(* (the difficulty) are tuples of one-character strings.                   *)
(*                                                                         *)
(* Every call to the spreadsheet service may fail; the failures the        *)
(* environment injects in one behaviour are counted in `faults`.           *)
(***************************************************************************)
EXTENDS Integers, Sequences, FiniteSets, TLC

VARIABLES
    master,   \* the 'General Info' sheet
    regs,     \* sheet id -> the 'Tracks' sheet of that document
    pass,     \* invocation -> the locals of its running onEdit/processRow call,
              \* with its history: pre and mid (regs when the invocation began
              \* and when findAndRemoveRecordInAllSheets returned), nfail (its
              \* failed service calls), ncalls (the write calls that succeeded)
    last,     \* history: what the latest finished processRow was and left behind
              \* (kept by the specification that compares two runs)
    passes,   \* history: number of edits of the master so far
    faults    \* history: number of failed spreadsheet-service calls so far

vars == <<master, regs, pass, last, passes, faults>>

-----------------------------------------------------------------------------
(* Bounds of the model *)

MaxPasses == 2
MaxPassesOneTrail == 4
MaxFaults == 1

\* the most registries the drawn initial states put one trail in
MaxCopies == 2

\* the most letters of a tier name the drawn difficulty cells hold in upper
\* case, short of all of them
MaxUpper == 2

-----------------------------------------------------------------------------
(* Strings *)

Lowers == <<"a","c","d","e","f","h","i","l","m","n","o","r","s","t","u","v","y">>
Uppers == <<"A","C","D","E","F","H","I","L","M","N","O","R","S","T","U","V","Y">>

\* String.prototype.toLowerCase / toUpperCase on one character
LowerChar(ch) ==
    IF \E k \in 1..Len(Uppers) : Uppers[k] = ch
    THEN Lowers[CHOOSE k \in 1..Len(Uppers) : Uppers[k] = ch]
    ELSE ch

UpperChar(ch) ==
    IF \E k \in 1..Len(Lowers) : Lowers[k] = ch
    THEN Uppers[CHOOSE k \in 1..Len(Lowers) : Lowers[k] = ch]
    ELSE ch

\* a variant that lowers the first character only
toLowerCase_FirstOnly(s) ==
    [k \in 1..Len(s) |-> IF k = 1 THEN LowerChar(s[k]) ELSE s[k]]

toLowerCase(s) == [k \in 1..Len(s) |-> LowerChar(s[k])]

\* a variant that returns the string as it is
capitalizeFirstLetter_Unchanged(string) == string

\* string.charAt(0).toUpperCase() + string.slice(1).toLowerCase()
capitalizeFirstLetter(string) ==
    IF Len(string) = 0
    THEN << >>
    ELSE <<UpperChar(string[1])>> \o toLowerCase(Tail(string))

\* the five literals processRow compares newDifficulty with
EASY         == <<"e","a","s","y">>
VERY_EASY    == <<"v","e","r","y"," ","e","a","s","y">>
INTERMEDIATE == <<"i","n","t","e","r","m","e","d","i","a","t","e">>
MODERATE     == <<"m","o","d","e","r","a","t","e">>
DIFFICULT    == <<"d","i","f","f","i","c","u","l","t">>

-----------------------------------------------------------------------------
(* Sheets *)

easySheetId         == "easySheetId"
veryEasySheetId     == "veryEasySheetId"
intermediateSheetId == "intermediateSheetId"
moderateSheetId     == "moderateSheetId"
difficultSheetId    == "difficultSheetId"

\* var sheetIds = [easySheetId, veryEasySheetId, ...]: the order of the scan
sheetIds ==
    <<easySheetId, veryEasySheetId, intermediateSheetId, moderateSheetId,
      difficultSheetId>>

SheetIdSet == {sheetIds[k] : k \in 1..Len(sheetIds)}

NULL == "null"

\* the columns of the master and of the category sheets, as processRow reads
\* them and updateOrInsertRow writes them
COL_ID == 1
COL_NAME == 2
COL_LAT == 3
COL_LON == 4
COL_DIFFICULTY == 5
COL_NOTES == 11

HeaderRow ==
    [c |-> <<"id", "name", "lat", "lon",
             <<"d","i","f","f","i","c","u","l","t","y">>,
             "length", "timing", "distance", "websiteLink", "maxParticipants",
             "notes">>,
     f |-> <<"auto", "auto">>]

\* Sheet.getLastRow()
getLastRow(sheet) == Len(sheet)

\* sheet.getRange(2, 1, lastRow - 1, 1).getValues(): the key column, header skipped
KeyColumn(sheet, lastRow) ==
    [k \in 1..(lastRow - 1) |-> sheet[k + 1].c[COL_ID]]

\* the first j (0-based, as in the script) with values[j][0] == id, or -1
FirstMatch(values, id) ==
    IF \E k \in 1..Len(values) : values[k] = id
    THEN (CHOOSE k \in 1..Len(values) :
              /\ values[k] = id
              /\ \A m \in 1..(k - 1) : values[m] # id) - 1
    ELSE -1

\* a variant of line 25 that deletes row j + 1, the row above the match
deleteRow_RowAbove(sheet, r) ==
    SubSeq(sheet, 1, r - 2) \o SubSeq(sheet, r, Len(sheet))

\* Sheet.deleteRow(r); a row below the last row with content holds nothing
deleteRow(sheet, r) ==
    IF r \in 1..Len(sheet)
    THEN SubSeq(sheet, 1, r - 1) \o SubSeq(sheet, r + 1, Len(sheet))
    ELSE sheet

\* Sheet.appendRow(cells): a new row after the last row with content
appendRow(sheet, cells) == Append(sheet, [c |-> cells, f |-> <<"auto", "auto">>])

\* a row of the grid below the last row with content: nothing in its cells
BlankRow ==
    [c |-> [k \in COL_ID..COL_NOTES |-> ""], f |-> <<"auto", "auto">>]

\* sheet.getRange(r, col).setValue(v); a value written below the last row with
\* content makes row r the last row with content
setValue(sheet, r, col, v) ==
    [sheet \o [k \in 1..(r - Len(sheet)) |-> BlankRow] EXCEPT ![r].c[col] = v]

\* sheet.getRange(r, col).setNumberFormat('@STRING@'), col being lat or lon
setNumberFormat(sheet, r, col) == [sheet EXCEPT ![r].f[col - 2] = "text"]

-----------------------------------------------------------------------------
(* The master and the inputs of the model *)

MASTER_NAME == "General Info"

\* the ids of the trails the master lists, row k + 1 holding TrailIds[k]
TrailIds == <<"t1", "t2">>

\* what an edit may type into a name cell and into a difficulty cell
Names == {"n0", "n1"}

DiffInputs ==
    { <<"E","a","s","y">>,
      <<"v","e","r","y"," ","e","a","s","y">>,
      <<"I","n","t","e","r","m","e","d","i","a","t","e">>,
      <<"M","O","D","E","R","A","T","E">>,
      <<"d","i","f","f","i","c","u","l","t">>,
      <<"H","a","r","d">> }

\* the columns an edit notification may name, and the sheets it may come from
EditedColumns == {COL_NAME, COL_DIFFICULTY}

SheetNames == {MASTER_NAME, "Archive"}

CellInputs(col) ==
    IF col = COL_NAME THEN Names
    ELSE IF col = COL_DIFFICULTY THEN DiffInputs
    ELSE {"x"}

\* a trail as it is born in the master: named, located, not yet classified
NewTrail(id) ==
    [c |-> <<id, "n0", "41.7336", "12.7011", << >>, "12 km", "4 h", "30 km",
             "https://trail", "15", "">>,
     f |-> <<"text", "text">>]

\* what opening a document and its tab may give: the sheet, an exception of
\* openById (no such document), or null from getSheetByName (no such tab)
OpenOutcomes == {"ok", "nodoc", "notab"}

\* the invocations: one at a time in every specification but SpecTwoPasses,
\* where two run side by side
Procs == {"p1", "p2"}

EmptyRegs == [s \in SheetIdSet |-> <<HeaderRow>>]

IdlePass ==
    [pc |-> "idle", sheetName |-> "", row |-> 0, col |-> 0,
     rec |-> << >>, i |-> 0, j |-> -1, oldSheet |-> NULL, targetSheet |-> NULL,
     lastRow |-> 0, foundRow |-> 0, log |-> << >>, error |-> "",
     nfail |-> 0, ncalls |-> 0,
     pre |-> EmptyRegs, mid |-> EmptyRegs]

NoLast ==
    [row |-> 0, col |-> 0, master |-> << >>, regs |-> EmptyRegs,
     faults |-> 0, error |-> "", ran |-> FALSE]

Init ==
    /\ master = <<HeaderRow>> \o [k \in 1..Len(TrailIds) |-> NewTrail(TrailIds[k])]
    /\ regs = EmptyRegs
    /\ pass = [p \in Procs |-> IdlePass]
    /\ last = NoLast
    /\ passes = 0
    /\ faults = 0

\* a failed call of the spreadsheet service spends one fault of the budget
Fault(outcome) ==
    /\ outcome # "ok" => faults < MaxFaults
    /\ faults' = IF outcome = "ok" THEN faults ELSE faults + 1

Upd(p, r) == pass' = [pass EXCEPT ![p] = r]

-----------------------------------------------------------------------------
(* The edit notification and onEdit *)

\* An edit of one cell of a sheet of the master document (typing the value the
\* cell already holds is an edit too); the platform then calls onEdit(e).
\* `rows` are the master rows the edits touch, `bound` the number of edits of
\* the master the behaviour may hold.
EditCell(p, rows, bound) ==
    /\ pass[p].pc = "idle"
    /\ passes < bound
    /\ \E sheetName \in SheetNames, row \in rows, col \in EditedColumns :
         \E v \in CellInputs(col) :
           /\ master' = IF sheetName = MASTER_NAME
                        THEN setValue(master, row, col, v)
                        ELSE master
           /\ passes' = IF sheetName = MASTER_NAME THEN passes + 1 ELSE passes
           /\ Upd(p, [IdlePass EXCEPT !.pc = "onEdit", !.sheetName = sheetName,
                                     !.row = row, !.col = col,
                                     !.pre = regs, !.mid = regs])
    /\ UNCHANGED <<regs, last, faults>>

\* onEdit without the test of the sheet name: every edit is processed
onEdit_AnySheet(p) ==
    LET me == pass[p] IN
    /\ me.pc = "onEdit"
    /\ Upd(p, [me EXCEPT !.pc = "processRow",
                         !.log = Append(@, <<"Edit detected", me.row, me.col>>)])
    /\ UNCHANGED <<master, regs, last, passes, faults>>

\* onEdit(e): only an edit of 'General Info' is processed
onEdit(p) ==
    LET me == pass[p] IN
    /\ me.pc = "onEdit"
    /\ IF me.sheetName = MASTER_NAME
       THEN Upd(p, [me EXCEPT !.pc = "processRow",
                              !.log = Append(@, <<"Edit detected", me.row, me.col>>)])
       ELSE Upd(p, [me EXCEPT !.pc = "done"])
    /\ UNCHANGED <<master, regs, last, passes, faults>>

-----------------------------------------------------------------------------
(* processRow, lines 89-107: open the master and read the edited row *)

ReadRow(row) ==
    [k \in COL_ID..COL_NOTES |-> IF k = COL_DIFFICULTY
                     THEN toLowerCase(master[row].c[k])
                     ELSE master[row].c[k]]

processRow(p) ==
    LET me == pass[p] IN
    /\ me.pc = "processRow"
    /\ \E outcome \in OpenOutcomes :
         /\ Fault(outcome)
         /\ IF outcome = "nodoc"
            THEN Upd(p, [me EXCEPT !.pc = "done", !.error = "openById master",
                                   !.nfail = @ + 1])
            ELSE IF outcome = "notab"
            THEN Upd(p, [me EXCEPT !.pc = "done", !.nfail = @ + 1,
                                   !.log = Append(@, <<"Master sheet not found">>)])
            ELSE LET rec == ReadRow(me.row) IN
                 Upd(p, [me EXCEPT !.pc = "scan", !.rec = rec, !.i = 0,
                                   !.log = Append(@, <<"Processing row", me.row,
                                                       rec[COL_ID],
                                                       rec[COL_DIFFICULTY]>>)])
    /\ UNCHANGED <<master, regs, last, passes>>

-----------------------------------------------------------------------------
(* findAndRemoveRecordInAllSheets *)

\* lines 5-29, one turn of the loop over sheetIds up to the match
findAndRemove_scan(p) ==
    LET me  == pass[p]
        sid == sheetIds[me.i + 1]
        id  == me.rec[COL_ID]
    IN
    /\ me.pc = "scan"
    /\ me.i < Len(sheetIds)
    /\ \E outcome \in OpenOutcomes :
         /\ Fault(outcome)
         /\ IF outcome = "nodoc"
            THEN Upd(p, [me EXCEPT !.i = @ + 1, !.nfail = @ + 1,
                                   !.log = Append(@, <<"Error opening sheet", sid>>)])
            ELSE IF outcome = "notab"
            THEN Upd(p, [me EXCEPT !.i = @ + 1, !.nfail = @ + 1,
                                   !.log = Append(@, <<"Sheet not found", sid>>)])
            ELSE LET sheet   == regs[sid]
                     lastRow == getLastRow(sheet)
                 IN
                 IF lastRow <= 1
                 THEN Upd(p, [me EXCEPT !.i = @ + 1,
                                        !.log = Append(@, <<"Sheet is empty", sid>>)])
                 ELSE LET values == KeyColumn(sheet, lastRow)
                          j      == FirstMatch(values, id)
                      IN
                      IF j >= 0
                      THEN Upd(p, [me EXCEPT !.pc = "delete", !.j = j])
                      ELSE Upd(p, [me EXCEPT !.i = @ + 1])
    /\ UNCHANGED <<master, regs, last, passes>>

\* a variant of the catch of lines 30-32 that tries the same registry again
findAndRemove_delete_Retries(p) ==
    LET me  == pass[p]
        sid == sheetIds[me.i + 1]
        id  == me.rec[COL_ID]
    IN
    /\ me.pc = "delete"
    /\ \E outcome \in {"ok", "throws"} :
         /\ Fault(outcome)
         /\ IF outcome = "ok"
            THEN LET after == [regs EXCEPT ![sid] = deleteRow(@, me.j + 2)] IN
                 /\ regs' = after
                 /\ Upd(p, [me EXCEPT !.pc = "decide", !.oldSheet = sid,
                                      !.mid = after,
                                      !.log = Append(@, <<"Removed row", id, sid>>)])
            ELSE /\ regs' = regs
                 /\ Upd(p, [me EXCEPT !.pc = "scan", !.nfail = @ + 1,
                                      !.log = Append(@, <<"Error opening sheet", sid>>)])
    /\ UNCHANGED <<master, last, passes>>

\* lines 25-27 (and 30-32 when deleteRow throws): delete the matching row
findAndRemove_delete(p) ==
    LET me  == pass[p]
        sid == sheetIds[me.i + 1]
        id  == me.rec[COL_ID]
    IN
    /\ me.pc = "delete"
    /\ \E outcome \in {"ok", "throws"} :
         /\ Fault(outcome)
         /\ IF outcome = "ok"
            THEN LET after == [regs EXCEPT ![sid] = deleteRow(@, me.j + 2)] IN
                 /\ regs' = after
                 /\ Upd(p, [me EXCEPT !.pc = "decide", !.oldSheet = sid,
                                      !.mid = after,
                                      !.log = Append(@, <<"Removed row", id, sid>>)])
            ELSE /\ regs' = regs
                 /\ Upd(p, [me EXCEPT !.pc = "scan", !.i = @ + 1, !.nfail = @ + 1,
                                      !.log = Append(@, <<"Error opening sheet", sid>>)])
    /\ UNCHANGED <<master, last, passes>>

\* line 35: no sheet held the id
findAndRemove_null(p) ==
    LET me == pass[p] IN
    /\ me.pc = "scan"
    /\ me.i = Len(sheetIds)
    /\ Upd(p, [me EXCEPT !.pc = "decide", !.oldSheet = NULL, !.mid = regs])
    /\ UNCHANGED <<master, regs, last, passes, faults>>

-----------------------------------------------------------------------------
(* processRow, lines 117-134: placement decision, classification, target *)

\* a variant of line 117 that forgets the removed copy
Proceeds_OnlyColumn5(oldSheet, editedColumn) == editedColumn = 5

\* line 117
Proceeds(oldSheet, editedColumn) == oldSheet # NULL \/ editedColumn = 5

\* a variant of lines 119-122 that opens the documents of 'easy' and of
\* 'very easy' the other way round
TargetSheetId_EasySwapped(newDifficulty) ==
    IF newDifficulty = EASY THEN veryEasySheetId
    ELSE IF newDifficulty = VERY_EASY THEN easySheetId
    ELSE IF newDifficulty = INTERMEDIATE THEN intermediateSheetId
    ELSE IF newDifficulty = MODERATE THEN moderateSheetId
    ELSE IF newDifficulty = DIFFICULT THEN difficultSheetId
    ELSE NULL

\* lines 119-132: the chain of comparisons, NULL for the final else
TargetSheetId(newDifficulty) ==
    IF newDifficulty = EASY THEN easySheetId
    ELSE IF newDifficulty = VERY_EASY THEN veryEasySheetId
    ELSE IF newDifficulty = INTERMEDIATE THEN intermediateSheetId
    ELSE IF newDifficulty = MODERATE THEN moderateSheetId
    ELSE IF newDifficulty = DIFFICULT THEN difficultSheetId
    ELSE NULL

\* The target is opened outside any try: an exception of openById leaves
\* processRow, and a null from getSheetByName is passed to updateOrInsertRow,
\* whose first statement, sheet.getLastRow(), then throws a TypeError.
processRow_place(p) ==
    LET me == pass[p]
        t  == TargetSheetId(me.rec[COL_DIFFICULTY])
    IN
    /\ me.pc = "decide"
    /\ IF ~Proceeds(me.oldSheet, me.col)
       THEN /\ Upd(p, [me EXCEPT !.pc = "done"])
            /\ faults' = faults
       ELSE IF t = NULL
       THEN /\ Upd(p, [me EXCEPT !.pc = "done",
                                 !.log = Append(@, <<"Unsupported difficulty",
                                                     me.rec[COL_DIFFICULTY]>>)])
            /\ faults' = faults
       ELSE \E outcome \in OpenOutcomes :
              /\ Fault(outcome)
              /\ IF outcome = "nodoc"
                 THEN Upd(p, [me EXCEPT !.pc = "done", !.error = "openById",
                                        !.nfail = @ + 1])
                 ELSE IF outcome = "notab"
                 THEN Upd(p, [me EXCEPT !.pc = "done", !.error = "TypeError",
                                        !.nfail = @ + 1])
                 ELSE Upd(p, [me EXCEPT !.pc = "upsert", !.targetSheet = t])
    /\ UNCHANGED <<master, regs, last, passes>>

-----------------------------------------------------------------------------
(* updateOrInsertRow *)

\* lines 45-65: lastRow, and the row of the id (0 for the script's null)
updateOrInsertRow_find(p) ==
    LET me      == pass[p]
        sheet   == regs[me.targetSheet]
        lastRow == getLastRow(sheet)
        j       == FirstMatch(KeyColumn(sheet, lastRow), me.rec[COL_ID])
    IN
    /\ me.pc = "upsert"
    /\ Upd(p, [me EXCEPT !.pc = "write", !.lastRow = lastRow,
                         !.foundRow = IF lastRow > 1 /\ j >= 0 THEN j + 2 ELSE 0])
    /\ UNCHANGED <<master, regs, last, passes, faults>>

\* the cells updateOrInsertRow writes: difficulty = capitalizeFirstLetter(difficulty)
RowCells(rec) ==
    [rec EXCEPT ![COL_DIFFICULTY] = capitalizeFirstLetter(rec[COL_DIFFICULTY])]

\* a variant of lines 80-83 that formats row 2 whatever row was appended
AppendCalls_FormatsRow2(rec, formatRow) ==
    << [op |-> "appendRow", cells |-> RowCells(rec)],
       [op |-> "setNumberFormat", r |-> 2, col |-> COL_LAT],
       [op |-> "setNumberFormat", r |-> 2, col |-> COL_LON] >>

\* The calls of the spreadsheet service each write path makes, in order.
\* lines 49-52 and 80-83: appendRow, then the text format of lat and of lon
AppendCalls(rec, formatRow) ==
    << [op |-> "appendRow", cells |-> RowCells(rec)],
       [op |-> "setNumberFormat", r |-> formatRow, col |-> COL_LAT],
       [op |-> "setNumberFormat", r |-> formatRow, col |-> COL_LON] >>

\* a variant of lines 59-77 that takes i + 1, not i + 2, for the found row
UpdateCalls_RowAbove(rec, foundRow) ==
    LET cells == RowCells(rec)
        set(col) == [op |-> "setValue", r |-> foundRow - 1, col |-> col, v |-> cells[col]]
        fmt(col) == [op |-> "setNumberFormat", r |-> foundRow - 1, col |-> col]
    IN
    << set(2), set(3), fmt(3), set(4), fmt(4), set(5), set(6), set(7), set(8),
       set(9), set(10), set(11) >>

\* lines 68-77: one setValue per column 2..11, lat and lon with their format
UpdateCalls(rec, foundRow) ==
    LET cells == RowCells(rec)
        set(col) == [op |-> "setValue", r |-> foundRow, col |-> col, v |-> cells[col]]
        fmt(col) == [op |-> "setNumberFormat", r |-> foundRow, col |-> col]
    IN
    << set(2), set(3), fmt(3), set(4), fmt(4), set(5), set(6), set(7), set(8),
       set(9), set(10), set(11) >>

\* a variant of lines 67-84 that appends whether or not the id was found
WriteCalls_AlwaysAppends(lastRow, foundRow, rec) ==
    IF lastRow <= 1 THEN AppendCalls(rec, 2)
    ELSE AppendCalls(rec, lastRow + 1)

WriteCalls(lastRow, foundRow, rec) ==
    IF lastRow <= 1 THEN AppendCalls(rec, 2)
    ELSE IF foundRow # 0 THEN UpdateCalls(rec, foundRow)
    ELSE AppendCalls(rec, lastRow + 1)

ApplyCall(sheet, call) ==
    IF call.op = "appendRow" THEN appendRow(sheet, call.cells)
    ELSE IF call.op = "setValue" THEN setValue(sheet, call.r, call.col, call.v)
    ELSE setNumberFormat(sheet, call.r, call.col)

RECURSIVE ApplyThrough(_, _, _)
ApplyThrough(sheet, calls, n) ==
    IF n = 0 THEN sheet
    ELSE ApplyCall(ApplyThrough(sheet, calls, n - 1), calls[n])

\* a variant in which the call that throws has written before it throws
ApplyCalls_FailingCallLands(sheet, calls, n) ==
    ApplyThrough(sheet, calls, IF n < Len(calls) THEN n + 1 ELSE n)

\* the sheet after the first n of the calls: call n made on the one sheet the
\* calls before it leave
RECURSIVE ApplyCalls(_, _, _)
ApplyCalls(sheet, calls, n) ==
    IF n = 0 THEN sheet
    ELSE CHOOSE after \in {ApplyCall(before, calls[n]) :
                              before \in {ApplyCalls(sheet, calls, n - 1)}} : TRUE

\* the Logger.log of each path: after appendRow, or after the last setValue
WriteLog(lastRow, foundRow, id, n) ==
    IF lastRow <= 1
    THEN IF n >= 1 THEN << <<"Inserted new row into empty sheet">> >> ELSE << >>
    ELSE IF foundRow # 0
    THEN IF n = 12 THEN << <<"Updated existing row", id>> >> ELSE << >>
    ELSE IF n >= 1 THEN << <<"Inserted new row into non-empty sheet">> >> ELSE << >>

\* a variant of lines 48-84 that also writes the capitalized difficulty back
\* to the edited row of the master
updateOrInsertRow_write_WritesMaster(p) ==
    LET me    == pass[p]
        sid   == me.targetSheet
        calls == WriteCalls(me.lastRow, me.foundRow, me.rec)
    IN
    /\ me.pc = "write"
    /\ \E n \in 0..Len(calls) :
         LET outcome == IF n = Len(calls) THEN "ok" ELSE "throws" IN
         /\ Fault(outcome)
         /\ regs' = [regs EXCEPT ![sid] = ApplyCalls(@, calls, n)]
         /\ Upd(p, [me EXCEPT !.pc = "done",
                              !.error = IF outcome = "ok" THEN "" ELSE "write",
                              !.nfail = IF outcome = "ok" THEN @ ELSE @ + 1,
                              !.ncalls = n,
                              !.log = @ \o WriteLog(me.lastRow, me.foundRow,
                                                   me.rec[COL_ID], n)])
    /\ master' = setValue(master, me.row, COL_DIFFICULTY,
                          RowCells(me.rec)[COL_DIFFICULTY])
    /\ UNCHANGED <<last, passes>>

\* lines 48-84: the writes.  Nothing catches an exception of a call: the calls
\* made before it stay, the rest of the pass does not run.
updateOrInsertRow_write(p) ==
    LET me    == pass[p]
        sid   == me.targetSheet
        calls == WriteCalls(me.lastRow, me.foundRow, me.rec)
    IN
    /\ me.pc = "write"
    /\ \E n \in 0..Len(calls) :
         LET outcome == IF n = Len(calls) THEN "ok" ELSE "throws" IN
         /\ Fault(outcome)
         /\ regs' = [regs EXCEPT ![sid] = ApplyCalls(@, calls, n)]
         /\ Upd(p, [me EXCEPT !.pc = "done",
                              !.error = IF outcome = "ok" THEN "" ELSE "write",
                              !.nfail = IF outcome = "ok" THEN @ ELSE @ + 1,
                              !.ncalls = n,
                              !.log = @ \o WriteLog(me.lastRow, me.foundRow,
                                                   me.rec[COL_ID], n)])
    /\ UNCHANGED <<master, last, passes>>

-----------------------------------------------------------------------------
(* The end of an invocation; `keep` tells whether the history keeps it *)

Return(p, keep) ==
    LET me == pass[p] IN
    /\ me.pc = "done"
    /\ Upd(p, IdlePass)
    /\ last' = IF keep /\ me.sheetName = MASTER_NAME
               THEN [row |-> me.row, col |-> me.col, master |-> master,
                     regs |-> regs, faults |-> me.nfail, error |-> me.error,
                     ran |-> TRUE]
               ELSE last
    /\ UNCHANGED <<master, regs, passes, faults>>

-----------------------------------------------------------------------------
(* The serialized system: one invocation at a time *)

AllRows == 2..(Len(TrailIds) + 1)

Pass(p, keep) ==
    \/ onEdit(p)
    \/ processRow(p)
    \/ findAndRemove_scan(p)
    \/ findAndRemove_delete(p)
    \/ findAndRemove_null(p)
    \/ processRow_place(p)
    \/ updateOrInsertRow_find(p)
    \/ updateOrInsertRow_write(p)
    \/ Return(p, keep)

Next == EditCell("p1", AllRows, MaxPasses) \/ Pass("p1", FALSE)

Spec == Init /\ [][Next]_vars

\* the same system with every edit on the row of the first trail: longer
\* histories, each finished run of processRow kept in `last`
NextOneTrail == EditCell("p1", {2}, MaxPassesOneTrail) \/ Pass("p1", TRUE)

SpecOneTrail == Init /\ [][NextOneTrail]_vars

\* One pass on the row of the first trail, from registries as earlier passes
\* can have left them: the trail, now named "n1" in the master, in no registry,
\* in one, or (after a skipped registry) in up to MaxCopies, its copies carrying
\* that name or the one before it; the other trail in no registry or in one,
\* before or after a copy of the first.
TierOf(sid) ==
    IF sid = easySheetId THEN EASY
    ELSE IF sid = veryEasySheetId THEN VERY_EASY
    ELSE IF sid = intermediateSheetId THEN INTERMEDIATE
    ELSE IF sid = moderateSheetId THEN MODERATE
    ELSE DIFFICULT

\* the row a completed write of (id, name) into registry sid leaves
StoredRow(id, name, sid) ==
    [c |-> [NewTrail(id).c EXCEPT ![COL_NAME] = name,
                                  ![COL_DIFFICULTY] = capitalizeFirstLetter(TierOf(sid))],
     f |-> <<"text", "text">>]

MasterRow(id, name, difficulty) ==
    [c |-> [NewTrail(id).c EXCEPT ![COL_NAME] = name, ![COL_DIFFICULTY] = difficulty],
     f |-> NewTrail(id).f]

InitOnePass ==
    \E H \in SUBSET SheetIdSet, other \in SheetIdSet \cup {NULL},
       otherFirst \in BOOLEAN, copyName \in Names, difficulty \in DiffInputs,
       col \in EditedColumns :
        LET R == [sid \in SheetIdSet |->
                    LET mine   == IF sid \in H
                                  THEN <<StoredRow(TrailIds[1], copyName, sid)>>
                                  ELSE << >>
                        theirs == IF sid = other
                                  THEN <<StoredRow(TrailIds[2], "n0", sid)>>
                                  ELSE << >>
                    IN <<HeaderRow>> \o (IF otherFirst THEN theirs \o mine
                                         ELSE mine \o theirs)]
        IN
        /\ Cardinality(H) <= MaxCopies
        /\ otherFirst \/ other \in H
        /\ H = {} => copyName = "n0"
        /\ master = << HeaderRow,
                       MasterRow(TrailIds[1], "n1", difficulty),
                       IF other = NULL THEN NewTrail(TrailIds[2])
                       ELSE MasterRow(TrailIds[2], "n0", TierOf(other)) >>
        /\ regs = R
        /\ pass = [p \in Procs |->
                     IF p = "p1"
                     THEN [IdlePass EXCEPT !.pc = "onEdit", !.sheetName = MASTER_NAME,
                                           !.row = 2, !.col = col,
                                           !.pre = R, !.mid = R]
                     ELSE IdlePass]
        /\ last = NoLast
        /\ passes = 1
        /\ faults = 0

NextOnePass == Pass("p1", FALSE)

SpecOnePass == InitOnePass /\ [][NextOnePass]_vars

\* One pass on the row of the first trail after its difficulty cell was typed
\* in any mix of upper and lower case: each tier name with up to MaxUpper of
\* its letters, or all of them, in upper case, and strings that are no tier
\* name; the trail is in the last registry of the scan, or in none.
CaseVariants(tier) ==
    { [k \in 1..Len(tier) |-> IF k \in U THEN UpperChar(tier[k]) ELSE tier[k]] :
        U \in { V \in SUBSET (1..Len(tier)) :
                  Cardinality(V) <= MaxUpper \/ V = 1..Len(tier) } }

NoTierNames ==
    { << >>, <<"H","a","r","d">>, <<"e","a","s","y"," ">>, <<" ","e","a","s","y">>,
      <<"E","a","s">>, <<"v","e","r","y","e","a","s","y">>, <<"V","E","R","Y">>,
      <<"M","o","d","e","r","a","t","e","d">>, <<"e","a","s","y","e","a","s","y">> }

CaseInputs ==
    UNION {CaseVariants(tier) : tier \in {EASY, VERY_EASY, INTERMEDIATE,
                                           MODERATE, DIFFICULT}}
        \cup NoTierNames

\* an edit of the row of the first trail has just been notified: the trail in
\* the last registry of the scan or in none, its difficulty cell holding one
\* of `difficulties`, the notification naming one of `sheetNames`
InitEdited(sheetNames, difficulties) ==
    \E held \in {difficultSheetId, NULL}, difficulty \in difficulties,
       sheetName \in sheetNames, col \in EditedColumns :
        LET R == [sid \in SheetIdSet |->
                    IF sid = held
                    THEN <<HeaderRow, StoredRow(TrailIds[1], "n0", sid)>>
                    ELSE <<HeaderRow>>]
        IN
        /\ master = << HeaderRow,
                       MasterRow(TrailIds[1], "n1", difficulty),
                       NewTrail(TrailIds[2]) >>
        /\ regs = R
        /\ pass = [p \in Procs |->
                     IF p = "p1"
                     THEN [IdlePass EXCEPT !.pc = "onEdit", !.sheetName = sheetName,
                                           !.row = 2, !.col = col,
                                           !.pre = R, !.mid = R]
                     ELSE IdlePass]
        /\ last = NoLast
        /\ passes = 1
        /\ faults = 0

InitCase == InitEdited({MASTER_NAME}, CaseInputs)

SpecCase == InitCase /\ [][NextOnePass]_vars

\* One pass after an edit of any sheet, where the invocation takes every step
\* it can take: the platform runs a started invocation to its end, each call
\* of the spreadsheet service returning or throwing.
InitFair == InitEdited(SheetNames, DiffInputs)

FairSpecOnePass == InitFair /\ [][NextOnePass]_vars /\ WF_vars(NextOnePass)

\* Two invocations at a time.  The script takes no lock (no LockService), and
\* nothing in it waits for another invocation: while the invocation of an edit
\* of the row of the first trail runs, one more edit of that row, the last of
\* the MaxPasses edits, may be notified, and its invocation runs beside the
\* first, each call of the spreadsheet service being one step.  Both trails
\* are stored in the Easy registry, the first trail above the second; the
\* first edit left 'Easy' or 'MODERATE' in the difficulty cell.
InitTwoPasses ==
    \E difficulty \in {<<"E","a","s","y">>, <<"M","O","D","E","R","A","T","E">>},
       col \in EditedColumns :
        LET R == [sid \in SheetIdSet |->
                    IF sid = easySheetId
                    THEN <<HeaderRow, StoredRow(TrailIds[1], "n0", sid),
                           StoredRow(TrailIds[2], "n0", sid)>>
                    ELSE <<HeaderRow>>]
        IN
        /\ master = << HeaderRow,
                       MasterRow(TrailIds[1], "n1", difficulty),
                       MasterRow(TrailIds[2], "n0", EASY) >>
        /\ regs = R
        /\ pass = [p \in Procs |->
                     IF p = "p1"
                     THEN [IdlePass EXCEPT !.pc = "onEdit", !.sheetName = MASTER_NAME,
                                           !.row = 2, !.col = col,
                                           !.pre = R, !.mid = R]
                     ELSE IdlePass]
        /\ last = NoLast
        /\ passes = MaxPasses - 1
        /\ faults = 0

NextTwoPasses ==
    \/ EditCell("p2", {2}, MaxPasses)
    \/ Pass("p1", FALSE)
    \/ Pass("p2", FALSE)

SpecTwoPasses == InitTwoPasses /\ [][NextTwoPasses]_vars

-----------------------------------------------------------------------------
(* Vocabulary of the properties *)

Me == pass["p1"]

\* the number of data rows of a sheet whose key is id
Count(sheet, id) == Cardinality({r \in 2..Len(sheet) : sheet[r].c[COL_ID] = id})

\* the category registries of R that hold a data row of id
Holders(R, id) == {sid \in SheetIdSet : Count(R[sid], id) > 0}

RECURSIVE SumCount(_, _, _)
SumCount(R, id, n) ==
    IF n = 0 THEN 0 ELSE Count(R[sheetIds[n]], id) + SumCount(R, id, n - 1)

\* the number of data rows of id over the five category registries of R
TotalCount(R, id) == SumCount(R, id, Len(sheetIds))

IdSet == {TrailIds[k] : k \in 1..Len(TrailIds)}

\* the registry of each tier, as the data model pairs them
TierRegistry ==
    { <<EASY, easySheetId>>, <<VERY_EASY, veryEasySheetId>>,
      <<INTERMEDIATE, intermediateSheetId>>, <<MODERATE, moderateSheetId>>,
      <<DIFFICULT, difficultSheetId>> }

\* the registries that correspond to a lower-cased difficulty: one, or none
RegistriesOf(difficulty) == {tr[2] : tr \in {x \in TierRegistry : x[1] = difficulty}}

\* the invocation of processRow has ended ...
Ended == Me.pc = "done" /\ Me.sheetName = MASTER_NAME

\* ... having read its row ...
EndedRead == Ended /\ Me.rec # << >>

\* ... and without an uncaught exception
Completed == EndedRead /\ Me.error = ""

\* the id and the lower-cased difficulty the master holds in the edited row
MasterId == master[Me.row].c[COL_ID]

MasterDifficulty == toLowerCase(master[Me.row].c[COL_DIFFICULTY])

\* the pass went on to classification: a stale copy was removed, or column 5
WentOn == Me.oldSheet # NULL \/ Me.col = 5

Logged(message) == \E k \in 1..Len(Me.log) : Me.log[k][1] = message

-----------------------------------------------------------------------------
(* C1 *)

-----------------------------------------------------------------------------
(* C2 *)

\* C2 as stated: in every state of every sequence of serialized passes, also
\* inside a pass and when a registry was skipped because it could not be
\* opened, an id is in at most one of the five category registries.
C2_AtMostOneRegistry ==
    \A id \in IdSet : Cardinality(Holders(regs, id)) <= 1

-----------------------------------------------------------------------------
(* C3 *)

\* C3 as stated: processRow(row, editedColumn) run twice in a row with no
\* master edit in between leaves every category registry as the first run left
\* it.  Stated for two runs in which no call of the spreadsheet service failed.
C3_SecondRunChangesNothing ==
    ( /\ Completed /\ Me.nfail = 0
      /\ last.ran /\ last.faults = 0 /\ last.error = ""
      /\ last.row = Me.row /\ last.col = Me.col
      /\ last.master = master )
    => regs = last.regs

-----------------------------------------------------------------------------
(* C4 *)

\* C4 as stated: when findAndRemoveRecordInAllSheets returns, with a sheet or
\* with null, no category registry holds a data row whose key is the id.
C4_RemovalComplete ==
    Me.pc = "decide" => Holders(regs, Me.rec[COL_ID]) = {}

-----------------------------------------------------------------------------
(* C5 *)

\* C5 as stated: once a pass has completed without error, every category
\* registry holding a row of the id is the registry of the master's current
\* difficulty of that id.
C5_MembershipMatchesDifficulty ==
    Completed => Holders(regs, MasterId) \subseteq RegistriesOf(MasterDifficulty)

-----------------------------------------------------------------------------
(* C6 *)

\* C6 as stated: when the lower-cased difficulty is none of the five tiers the
\* pass inserts and overwrites nothing, and after the pass the id is absent
\* from all five category registries.
C6_UnsupportedValueSafety ==
    (EndedRead /\ RegistriesOf(Me.rec[COL_DIFFICULTY]) = {}) =>
        /\ regs = Me.mid
        /\ Holders(regs, Me.rec[COL_ID]) = {}

-----------------------------------------------------------------------------
(* C7 *)

\* C7: in every state reachable by passes from registries without duplicate
\* keys, a category registry holds at most one data row per id.
C7_OneRowPerId ==
    \A sid \in SheetIdSet : \A id \in IdSet : Count(regs[sid], id) <= 1

\* updateOrInsertRow found the row of the id in the target and overwrote it
C7_Witness ==
    /\ Completed
    /\ Me.foundRow # 0
    /\ Me.ncalls = 12
    /\ Count(regs[Me.targetSheet], Me.rec[COL_ID]) = 1

-----------------------------------------------------------------------------
(* C8 *)

\* C8: after Locate-and-Remove the pass goes on to classification and
\* placement exactly when a stale copy was found and removed (a non-null
\* result) or the edited column is 5; otherwise it ends without writing to any
\* category registry.
C8_PlacementDecision ==
    /\ Me.pc \in {"decide", "upsert", "write"} \/ EndedRead =>
          IF Me.oldSheet # NULL
          THEN /\ Me.mid = [Me.pre EXCEPT ![Me.oldSheet] = Me.mid[Me.oldSheet]]
               /\ Count(Me.mid[Me.oldSheet], Me.rec[COL_ID])
                      = Count(Me.pre[Me.oldSheet], Me.rec[COL_ID]) - 1
          ELSE Me.mid = Me.pre
    /\ Me.pc \in {"upsert", "write"} => Me.oldSheet # NULL \/ Me.col = 5
    /\ EndedRead =>
          IF Me.oldSheet # NULL \/ Me.col = 5
          THEN \/ Me.targetSheet # NULL
               \/ Me.error # ""
               \/ Logged("Unsupported difficulty")
          ELSE /\ regs = Me.mid
               /\ Me.targetSheet = NULL
               /\ Me.error = ""
               /\ ~Logged("Unsupported difficulty")

\* a stale copy was removed on an edit of another column, and the pass placed
C8_Witness ==
    /\ Completed
    /\ Me.oldSheet # NULL
    /\ Me.col # 5
    /\ Me.targetSheet # NULL
    /\ Me.ncalls > 0

-----------------------------------------------------------------------------
(* C9 *)

\* C9 as stated: a category registry that cannot be opened, in the removal
\* scan or as the placement target, never ends the pass with an uncaught error.
C9_OpenFailureNeverFatal ==
    Me.error \notin {"openById", "TypeError"}

-----------------------------------------------------------------------------
(* C10 *)

-----------------------------------------------------------------------------
(* Rows as the data model describes them *)

\* the difficulty a row of each category registry shows
DisplayName(sid) ==
    IF sid = easySheetId THEN <<"E","a","s","y">>
    ELSE IF sid = veryEasySheetId THEN <<"V","e","r","y"," ","e","a","s","y">>
    ELSE IF sid = intermediateSheetId
         THEN <<"I","n","t","e","r","m","e","d","i","a","t","e">>
    ELSE IF sid = moderateSheetId THEN <<"M","o","d","e","r","a","t","e">>
    ELSE <<"D","i","f","f","i","c","u","l","t">>

\* the eleven fields a row of registry sid holds when it mirrors master row
\* `row`: the master's own values, column by column, but the difficulty
ExpectedCells(row, sid) ==
    [k \in COL_ID..COL_NOTES |->
        IF k = COL_DIFFICULTY THEN DisplayName(sid) ELSE master[row].c[k]]

\* the data rows of a sheet whose key is id
RowsOf(sheet, id) == {r \in 2..Len(sheet) : sheet[r].c[COL_ID] = id}

-----------------------------------------------------------------------------
(* C11 *)

\* C11 as stated: for any two distinct supported tiers A and B, when the id's
\* row is in registry A and column 5 of the master was edited to B, then after
\* the pass registry A holds no row of the id and registry B holds exactly one,
\* whose ten other fields are the master's and whose difficulty is B capitalized.
C11_Relocation ==
    \A A \in SheetIdSet : \A B \in SheetIdSet \ {A} :
        (/\ Completed
         /\ Me.col = COL_DIFFICULTY
         /\ Holders(Me.pre, MasterId) = {A}
         /\ Count(Me.pre[A], MasterId) = 1
         /\ RegistriesOf(MasterDifficulty) = {B}) =>
            /\ Count(regs[A], MasterId) = 0
            /\ Count(regs[B], MasterId) = 1
            /\ \A r \in RowsOf(regs[B], MasterId) :
                   regs[B][r].c = ExpectedCells(Me.row, B)

-----------------------------------------------------------------------------
(* C12 *)

\* C12 as stated: when the master holds an unsupported difficulty, a pass on an
\* id that was in no registry changes no registry; a pass on an id that was in
\* a registry deletes exactly that row from that registry, places the id
\* nowhere, and logs the unsupported value.
C12_UnsupportedScenario ==
    (EndedRead /\ RegistriesOf(Me.rec[COL_DIFFICULTY]) = {}) =>
        IF Holders(Me.pre, MasterId) = {}
        THEN regs = Me.pre
        ELSE /\ \E sid \in Holders(Me.pre, MasterId) :
                  \E r \in RowsOf(Me.pre[sid], MasterId) :
                      regs = [Me.pre EXCEPT ![sid] = deleteRow(Me.pre[sid], r)]
             /\ \E k \in 1..Len(Me.log) :
                    /\ Me.log[k][1] = "Unsupported difficulty"
                    /\ Me.log[k][2] = Me.rec[COL_DIFFICULTY]

-----------------------------------------------------------------------------
(* C13 *)

\* C13: onEdit calls processRow, with the row and the column of the edit, exactly
\* when the edited sheet is 'General Info' (the pass then starts by logging the
\* edit and reads the edited row); an edit of any other sheet ends at once: no
\* registry is read or written, no service call is made, no error is raised,
\* and the master and the five registries stay as they were.
C13_DispatchOnlyFromMaster ==
    /\ [](Me.pc # "idle" /\ Me.sheetName # MASTER_NAME =>
            /\ Me.pc \in {"onEdit", "done"}
            /\ regs = Me.pre
            /\ Me.error = "" /\ Me.nfail = 0 /\ Me.ncalls = 0
            /\ Me.rec = << >> /\ Me.log = << >>)
    /\ [](Me.pc \notin {"idle", "onEdit"} /\ Me.sheetName = MASTER_NAME =>
            /\ Me.log # << >>
            /\ Me.log[1] = <<"Edit detected", Me.row, Me.col>>
            /\ Me.rec # << >> => Me.rec[COL_ID] = master[Me.row].c[COL_ID])
    /\ [][Me.pc = "onEdit" =>
            /\ Me'.pc = IF Me.sheetName = MASTER_NAME THEN "processRow" ELSE "done"
            /\ Me'.row = Me.row /\ Me'.col = Me.col
            /\ UNCHANGED <<master, regs, faults>>]_vars
    /\ [][Me'.pc # "idle" /\ Me'.sheetName # MASTER_NAME =>
            UNCHANGED <<master, regs, faults>>]_vars

\* an edit of another sheet has been handled while a registry holds a trail
C13_Witness ==
    /\ Me.pc = "done"
    /\ Me.sheetName # MASTER_NAME
    /\ \E sid \in SheetIdSet : Len(regs[sid]) > 1

-----------------------------------------------------------------------------
(* C14 *)

\* the first data row of a sheet whose key is id
FirstRowOf(sheet, id) ==
    CHOOSE r \in RowsOf(sheet, id) : \A q \in RowsOf(sheet, id) : r <= q

\* C14: when updateOrInsertRow has returned, and the target held a row whose key
\* is the id, that row holds, at the same position, the fields id, name, lat,
\* lon, difficulty, length, timing, distance, websiteLink, maxParticipants,
\* notes of the record, the target has as many rows as before and every other
\* row of it is as before; when the target held no such row, also when it held
\* only its header, the target is what it was followed by exactly one new last
\* row of those fields in that order.  No other registry is written.
C14_UpsertSemantics ==
    (Me.pc = "done" /\ Me.targetSheet # NULL /\ Me.error = "") =>
        LET t      == Me.targetSheet
            before == Me.mid[t]
            id     == Me.rec[COL_ID]
            m      == master[Me.row].c
            fields == << id, m[2], m[3], m[4], DisplayName(t), m[6], m[7], m[8],
                         m[9], m[10], m[11] >>
        IN
        /\ \A sid \in SheetIdSet \ {t} : regs[sid] = Me.mid[sid]
        /\ IF RowsOf(before, id) # {}
           THEN /\ Len(regs[t]) = Len(before)
                /\ regs[t][FirstRowOf(before, id)].c = fields
                /\ \A r \in 1..Len(before) :
                       r # FirstRowOf(before, id) => regs[t][r] = before[r]
           ELSE /\ Len(regs[t]) = Len(before) + 1
                /\ regs[t][Len(before) + 1].c = fields
                /\ \A r \in 1..Len(before) : regs[t][r] = before[r]

\* a row that is not the last of its registry was overwritten with a new name
C14_Witness ==
    /\ Me.pc = "done" /\ Me.targetSheet # NULL /\ Me.error = ""
    /\ RowsOf(Me.mid[Me.targetSheet], Me.rec[COL_ID]) # {}
    /\ LET t == Me.targetSheet
           r == FirstRowOf(Me.mid[t], Me.rec[COL_ID])
       IN /\ r < Len(Me.mid[t])
          /\ regs[t][r].c # Me.mid[t][r].c
          /\ regs[t][r].c[COL_NAME] = master[Me.row].c[COL_NAME]

-----------------------------------------------------------------------------
(* C15 *)

\* the scan logged that it could not open registry sid or found no tab in it
LoggedFailure(sid) ==
    \E k \in 1..Len(Me.log) :
        Me.log[k] \in { <<"Error opening sheet", sid>>, <<"Sheet not found", sid>> }

\* the position of a registry in the order of the scan
ScanIndex(sid) == CHOOSE k \in 1..Len(sheetIds) : sheetIds[k] = sid

\* C15 as stated: when findAndRemoveRecordInAllSheets has returned, a non-null
\* result is the first registry, in the fixed order easy, very easy,
\* intermediate, moderate, difficult, that could be read and held the id, and
\* exactly the first matching row of it has been deleted; a null result leaves
\* every registry as it was; and the result is null exactly when no registry
\* that could be opened and was not empty held the id (the scan found no match).
C15_ScanResult ==
    Me.pc = "decide" =>
        LET id  == Me.rec[COL_ID]
            old == Me.oldSheet
        IN
        /\ sheetIds = <<easySheetId, veryEasySheetId, intermediateSheetId,
                        moderateSheetId, difficultSheetId>>
        /\ IF old # NULL
           THEN /\ RowsOf(Me.pre[old], id) # {}
                /\ regs = [Me.pre EXCEPT
                             ![old] = deleteRow(@, FirstRowOf(Me.pre[old], id))]
                /\ \A k \in 1..(ScanIndex(old) - 1) :
                       \/ sheetIds[k] \notin Holders(Me.pre, id)
                       \/ LoggedFailure(sheetIds[k])
           ELSE regs = Me.pre
        /\ old = NULL <=>
               /\ \A sid \in Holders(Me.pre, id) : LoggedFailure(sid)
               /\ Me.j < 0

-----------------------------------------------------------------------------
(* C16 *)

\* two characters are the same letter, whatever their case
SameLetter(a, b) ==
    \/ a = b
    \/ \E k \in 1..Len(Lowers) : {a, b} = {Lowers[k], Uppers[k]}

EqualsIgnoringCase(s, t) ==
    /\ Len(s) = Len(t)
    /\ \A k \in 1..Len(s) : SameLetter(s[k], t[k])

\* the registries of the tiers whose name the string equals, ignoring case
RegistriesNamed(s) ==
    {tr[2] : tr \in {x \in TierRegistry : EqualsIgnoringCase(s, x[1])}}

\* C16: no difficulty string names more than one registry; the registry a pass
\* opens as its target is the one of the tier whose name the master's
\* difficulty equals ignoring letter case; a pass that reaches classification
\* with such a difficulty and ends without error has written into that
\* registry a row of the id whose difficulty is the tier name, first letter in
\* upper case and the rest in lower case; and a difficulty is logged as
\* unsupported only when it equals no tier name ignoring case.
C16_Normalization ==
    LET named == RegistriesNamed(master[Me.row].c[COL_DIFFICULTY]) IN
    Me.pc # "idle" =>
        /\ Cardinality(named) <= 1
        /\ Me.targetSheet # NULL => named = {Me.targetSheet}
        /\ (Completed /\ WentOn /\ named # {}) =>
               /\ named = {Me.targetSheet}
               /\ RowsOf(regs[Me.targetSheet], MasterId) # {}
               /\ \A r \in RowsOf(regs[Me.targetSheet], MasterId) :
                      regs[Me.targetSheet][r].c[COL_DIFFICULTY]
                          = DisplayName(Me.targetSheet)
        /\ (Ended /\ Logged("Unsupported difficulty")) => named = {}

\* a difficulty typed neither in lower case nor capitalized has been placed
C16_Witness ==
    /\ Completed
    /\ Me.targetSheet # NULL
    /\ master[Me.row].c[COL_DIFFICULTY] # toLowerCase(master[Me.row].c[COL_DIFFICULTY])
    /\ master[Me.row].c[COL_DIFFICULTY] # DisplayName(Me.targetSheet)
    /\ \E r \in RowsOf(regs[Me.targetSheet], MasterId) :
           regs[Me.targetSheet][r].c[COL_DIFFICULTY] = DisplayName(Me.targetSheet)

-----------------------------------------------------------------------------
(* C17 *)

\* the lat and lon cells of a row are text-formatted
TextFormatted(row) == row.f = <<"text", "text">>

\* the master row that lists an id
MasterRowOf(id) == CHOOSE m \in 2..Len(master) : master[m].c[COL_ID] = id

-----------------------------------------------------------------------------
(* C18 *)

\* C18 as stated: when the id was in a category registry before the pass and
\* the master's difficulty is supported, a completed pass, whatever column was
\* edited, leaves in the registry of the current difficulty a row of the id
\* whose fields are the current master row's (difficulty capitalized), and no
\* row of the id in any registry keeps a field value the master no longer has.
C18_NoStaleCopy ==
    (/\ Completed
     /\ Holders(Me.pre, MasterId) # {}
     /\ RegistriesOf(MasterDifficulty) # {}) =>
        /\ \A t \in RegistriesOf(MasterDifficulty) :
               /\ RowsOf(regs[t], MasterId) # {}
               /\ \A r \in RowsOf(regs[t], MasterId) :
                      regs[t][r].c = ExpectedCells(Me.row, t)
        /\ \A sid \in SheetIdSet : \A r \in RowsOf(regs[sid], MasterId) :
               \A k \in (COL_ID..COL_NOTES) \ {COL_DIFFICULTY} :
                   regs[sid][r].c[k] = master[Me.row].c[k]

-----------------------------------------------------------------------------
(* C19 *)

\* the steps of a pass keep their order: nothing of a registry is touched
\* before the master row is read, the target is neither chosen nor written
\* before the removal scan has returned, and it is written in the last step
StepsInOrder ==
    /\ Me.pc \in {"onEdit", "processRow"} =>
           /\ Me.rec = << >> /\ regs = Me.pre
           /\ Me.oldSheet = NULL /\ Me.targetSheet = NULL /\ Me.ncalls = 0
    /\ Me.pc \in {"scan", "delete"} =>
           /\ Me.rec # << >> /\ regs = Me.pre
           /\ Me.oldSheet = NULL /\ Me.targetSheet = NULL /\ Me.ncalls = 0
    /\ Me.pc = "decide" =>
           /\ regs = Me.mid /\ Me.targetSheet = NULL /\ Me.ncalls = 0
    /\ Me.pc \in {"upsert", "write"} =>
           /\ regs = Me.mid /\ Me.targetSheet # NULL /\ Me.ncalls = 0
           /\ Me.targetSheet \in RegistriesOf(Me.rec[COL_DIFFICULTY])

\* C19 as stated: the master row is read before any registry is touched, the
\* removal comes before any write to the target and the classification after
\* the removal; so a pass that has removed a placed copy and is about to write
\* the target is in a state where the id is in none of the five registries.
C19_AbsentBetweenRemovalAndWrite ==
    /\ StepsInOrder
    /\ (Me.pc \in {"upsert", "write"} /\ Me.oldSheet # NULL) =>
           Holders(regs, Me.rec[COL_ID]) = {}

-----------------------------------------------------------------------------
(* C20 *)

\* a measure of what an invocation has left to do: the edit test, the read of
\* the row, two steps for each registry still to scan, the decision, the
\* search of the target, the write, the return
Rank(me) ==
    IF me.pc = "onEdit" THEN 17
    ELSE IF me.pc = "processRow" THEN 16
    ELSE IF me.pc = "scan" THEN 5 + 2 * (Len(sheetIds) - me.i)
    ELSE IF me.pc = "delete" THEN 4 + 2 * (Len(sheetIds) - me.i)
    ELSE IF me.pc = "decide" THEN 4
    ELSE IF me.pc = "upsert" THEN 3
    ELSE IF me.pc = "write" THEN 2
    ELSE IF me.pc = "done" THEN 1
    ELSE 0

\* C20: every step of a started pass lowers its measure, so no pass loops or
\* starts itself again; the scan index only grows and never passes five, so
\* each of the five registries is scanned at most once, and the target is
\* searched in one step, once; and every started pass reaches its end: the
\* normal end, the early end at the placement decision, the unsupported
\* abort, or a propagated error.
C20_EveryPassEnds ==
    /\ [][Me.pc # "idle" => Rank(Me)' < Rank(Me)]_vars
    /\ [][Me.pc \in {"scan", "delete"} /\ Me'.pc \in {"scan", "delete"} =>
            /\ Me'.i >= Me.i
            /\ Me'.pc = "scan" => Me'.i = Me.i + 1]_vars
    /\ [](Me.i \in 0..Len(sheetIds))
    /\ [][Me.pc = "upsert" => Me'.pc = "write"]_vars
    /\ (Me.pc # "idle") ~> (Me.pc = "done")

\* a pass ended after scanning all five registries and writing its target
C20_Witness ==
    /\ Me.pc = "done"
    /\ Me.i = Len(sheetIds)
    /\ Me.targetSheet # NULL
    /\ Me.ncalls > 0

-----------------------------------------------------------------------------
(* C21 *)

\* the rows of a sheet whose key is not id, in their order
OtherRows(sheet, id) ==
    LET NotOfId(row) == row.c[COL_ID] # id IN SelectSeq(sheet, NotOfId)

\* the category registries that differ from what they were when the pass began
ChangedRegistries == {sid \in SheetIdSet : regs[sid] # Me.pre[sid]}

\* C21: at every step of a pass for an id, passes running one at a time, in
\* every category registry the rows of every other id are the rows there were
\* before the pass, unchanged and in the same order; at most two category
\* registries differ from what they were, and they are the one the scan
\* removed the id from and the target.
C21_FrameOfAPass ==
    (Me.pc # "idle" /\ Me.sheetName = MASTER_NAME) =>
        /\ \A sid \in SheetIdSet :
               OtherRows(regs[sid], master[Me.row].c[COL_ID])
                   = OtherRows(Me.pre[sid], master[Me.row].c[COL_ID])
        /\ ChangedRegistries \subseteq ({Me.oldSheet, Me.targetSheet} \ {NULL})
        /\ Cardinality(ChangedRegistries) <= 2

\* a pass took its row out from above another trail's row and wrote another
\* registry
C21_Witness ==
    /\ Completed
    /\ Me.oldSheet # NULL /\ Me.targetSheet # NULL
    /\ Cardinality(ChangedRegistries) = 2
    /\ \E r \in 2..Len(Me.pre[Me.oldSheet]) :
           /\ Me.pre[Me.oldSheet][r].c[COL_ID] = MasterId
           /\ r < Len(Me.pre[Me.oldSheet])
           /\ Me.pre[Me.oldSheet][r + 1].c[COL_ID] # MasterId

-----------------------------------------------------------------------------
(* C22 *)

\* C22: in every state reached from empty category registries, at every step
\* of every pass, every data row of the category registry of a tier holds as
\* its difficulty the name of that tier, first letter in upper case and the
\* rest in lower case.
C22_TierConsistency ==
    \A sid \in SheetIdSet : \A r \in 2..Len(regs[sid]) :
        regs[sid][r].c[COL_DIFFICULTY] = DisplayName(sid)

\* the Moderate registry holds a trail whose master difficulty is typed in
\* another case, and another registry holds a trail too
C22_Witness ==
    /\ \E r \in 2..Len(regs[moderateSheetId]) : \E m \in 2..Len(master) :
           /\ master[m].c[COL_ID] = regs[moderateSheetId][r].c[COL_ID]
           /\ master[m].c[COL_DIFFICULTY] # DisplayName(moderateSheetId)
           /\ RegistriesNamed(master[m].c[COL_DIFFICULTY]) = {moderateSheetId}
    /\ \E sid \in SheetIdSet \ {moderateSheetId} : Len(regs[sid]) > 1

-----------------------------------------------------------------------------
(* C23 *)

\* the scan could not open registry sid: it logged a failure for it that was
\* not the failure of deleteRow on a match found in it
CouldNotOpen(sid) ==
    /\ LoggedFailure(sid)
    /\ ~(sid \in Holders(Me.pre, Me.rec[COL_ID]) /\ Me.j >= 0)

\* C23 as stated: when the id was in at most one row of the five category
\* registries as the pass began and the scan could open every category
\* registry, updateOrInsertRow finds no row of the id in the target, and the
\* completed write has appended the row of the id as the last row of the
\* target, also when the target is the registry the id was in.
C23_PlacementAlwaysAppends ==
    (/\ Me.pc \in {"write", "done"}
     /\ Me.targetSheet # NULL
     /\ TotalCount(Me.pre, Me.rec[COL_ID]) <= 1
     /\ \A sid \in SheetIdSet : ~CouldNotOpen(sid)) =>
        /\ Me.foundRow = 0
        /\ (Me.pc = "done" /\ Me.error = "") =>
               /\ Len(regs[Me.targetSheet]) = Len(Me.mid[Me.targetSheet]) + 1
               /\ regs[Me.targetSheet][Len(regs[Me.targetSheet])].c[COL_ID]
                      = Me.rec[COL_ID]
               /\ Count(regs[Me.targetSheet], Me.rec[COL_ID]) = 1

-----------------------------------------------------------------------------
\* C24: the master registry is read-only for the synchronization: no step of
\* onEdit, processRow, findAndRemoveRecordInAllSheets or updateOrInsertRow
\* deletes, appends or rewrites a master row, so the master is the same before
\* and after every pass, also one that aborts or ends with an exception.  Only
\* the user's edit, made while no invocation runs, changes the master.
C24_MasterReadOnly ==
    [][Me.pc # "idle" => master' = master]_vars

\* a pass that ended with an exception after part of its writes on a registry
C24_Witness ==
    /\ Ended
    /\ Me.error = "write"
    /\ Me.ncalls >= 1
    /\ regs # Me.pre
    /\ Len(master) = Len(TrailIds) + 1
    /\ master[Me.row].c[COL_ID] = Me.rec[COL_ID]

-----------------------------------------------------------------------------
\* the step deletes, for invocation p, a row with content of the registry p scans
DeletesRow(p) ==
    /\ pass[p].pc = "delete"
    /\ pass'[p].pc = "decide"
    /\ pass[p].j + 2 <= Len(regs[sheetIds[pass[p].i + 1]])

\* the step makes, for invocation p, at least one of the setValue calls of the
\* update branch on a row with content of the target
OverwritesRow(p) ==
    /\ pass[p].pc = "write"
    /\ pass'[p].pc = "done"
    /\ pass[p].lastRow > 1
    /\ pass[p].foundRow # 0
    /\ pass'[p].ncalls >= 1
    /\ pass[p].foundRow <= Len(regs[pass[p].targetSheet])

\* no invocation is between its first and its last step
AllEnded == \A p \in Procs : pass[p].pc \in {"idle", "done"}

NoIdInTwoRegistries == \A id \in IdSet : Cardinality(Holders(regs, id)) <= 1

\* the rows invocation p deletes and overwrites hold p's own id
ActsOnOwnRows(p) ==
    /\ DeletesRow(p) =>
           regs[sheetIds[pass[p].i + 1]][pass[p].j + 2].c[COL_ID]
               = pass[p].rec[COL_ID]
    /\ OverwritesRow(p) =>
           regs[pass[p].targetSheet][pass[p].foundRow].c[COL_ID]
               = pass[p].rec[COL_ID]

\* C25: when the steps of two passes on the same category registry interleave
\* (also between a pass's read of the key column and its deleteRow or its
\* row-indexed writes), every row a pass deletes or overwrites has the key of
\* that pass's own id, and once the passes have ended no id is in two category
\* registries.
C25_InterleavedPassesSafe ==
    [][/\ \A p \in Procs : ActsOnOwnRows(p)
       /\ (AllEnded => NoIdInTwoRegistries)']_vars

====
